---- MODULE Spec2Model ----
(***************************************************************************)
(* Product image lifecycle of the shop backend (src/index.js, first        *)
(* revision, lines 1-384): the catalog (MongoDB Product collection), the   *)
(* media store (Cloudinary, folder "products"), the three catalog routes   *)
(* /upload, /addproduct, /removeproduct and the start-up job               *)
(* cleanupOrphans.  Every handler is cut at its awaits, so that the        *)
(* interleavings of concurrent requests and of the sweep are those the     *)
(* event loop allows.                                                      *)
(*                                                                         *)
(* Strings are sequences of tokens: the separators "/" and "." are tokens  *)
(* of their own and every other token is a run of characters holding       *)
(* neither, so split('/'), split('.') and the regular expression of the    *)
(* sweep are computed on the tokens exactly as on the characters.          *)
(***************************************************************************)
EXTENDS Integers, Sequences, FiniteSets, TLC

VARIABLES catalog, remote, req, sweep, response, highest, creates, starts, raced

vars == <<catalog, remote, req, sweep, response, highest, creates, starts, raced>>

(* ------------------------------ bounds --------------------------------- *)

\* create requests (/upload, /addproduct) accepted over the whole run
MaxCreates == 2

\* starts of the server process (the first one included)
MaxStarts == 2

\* the request slots: requests in flight at the same time
Slots == {"r1", "r2"}

(* ------------------------------ strings -------------------------------- *)

\* JavaScript null (the image of a product created without a file)
Null == <<"null">>

\* req.file absent
NoFile == <<>>

RECURSIVE SplitFrom(_, _, _, _)
\* the pieces of s from token i on, `piece` being the piece begun before i
SplitFrom(s, sep, i, piece) ==
    IF i > Len(s) THEN <<piece>>
    ELSE IF s[i] = sep THEN <<piece>> \o SplitFrom(s, sep, i + 1, <<>>)
    ELSE SplitFrom(s, sep, i + 1, Append(piece, s[i]))

\* String.prototype.split(sep): the pieces between the separators
Split(s, sep) == SplitFrom(s, sep, 1, <<>>)

\* the last index of tok in s; 0 when there is none
LastIndexOf(s, tok) ==
    LET D == {i \in 1..Len(s) : s[i] = tok} IN
    IF D = {} THEN 0 ELSE CHOOSE i \in D : \A j \in D : j <= i

\* the file name without its extension, as the media store names uploads
\* made with use_filename: true, unique_filename: false
BaseName(file) ==
    LET k == LastIndexOf(file, ".") IN
    IF k = 0 THEN file ELSE SubSeq(file, 1, k - 1)

\* the extension of the file name (the format of the stored image)
Format(file) ==
    LET k == LastIndexOf(file, ".") IN
    IF k = 0 THEN <<>> ELSE SubSeq(file, k + 1, Len(file))

\* delivery address of the media store
Base == <<"https:", "/", "/", "res", ".", "com", "/">>

\* the resource an upload of `file` into `folder` creates
Resource(folder, file) ==
    LET pid == <<folder, "/">> \o BaseName(file) IN
    [public_id |-> pid, secure_url |-> Base \o pid \o <<".">> \o Format(file)]

\* the files a client may send
Files == {<<"a", ".", "png">>, <<"a", ".", "b", ".", "png">>}

\* the image URLs a client may post to /addproduct
ClientUrls == {Resource("products", f).secure_url : f \in Files}

(* --------------------------- identifier derivation --------------------- *)

\* /removeproduct, lines 226-232: last path segment, cut at its first dot
RemovePublicId(imageUrl) ==
    LET urlParts == Split(imageUrl, "/")
        filenameWithExtension == urlParts[Len(urlParts)]
        publicId == Split(filenameWithExtension, ".")[1]
    IN  <<"products", "/">> \o publicId

\* the starts of a match of /\/products\/(.+)\./ in s
MatchStarts(s) ==
    {i \in 1..Len(s) :
        /\ i + 4 <= Len(s)
        /\ s[i] = "/" /\ s[i + 1] = "products" /\ s[i + 2] = "/"
        /\ \E j \in (i + 4)..Len(s) : s[j] = "."}

\* orphan.match(/\/products\/(.+)\./): <<>> stands for a null match,
\* otherwise <<group 1>>; the match is the leftmost one and (.+) is greedy
Match(s) ==
    LET S == MatchStarts(s) IN
    IF S = {} THEN <<>>
    ELSE LET i == CHOOSE x \in S : \A y \in S : x <= y
             j == LastIndexOf(s, ".")
         IN  <<SubSeq(s, i + 3, j - 1)>>

SweepPublicIdWithFolder(orphan) == <<"products", "/">> \o Match(orphan)[1]

\* cleanupOrphans: the identifier handed to destroy
SweepPublicId(orphan) == Match(orphan)[1]

(* ------------------------------ catalog -------------------------------- *)

NewIdNoIncrement(products) ==
    IF products = <<>> THEN 1
    ELSE LET lastProduct == CHOOSE p \in {products[k] : k \in 1..Len(products)} :
                               \A k \in 1..Len(products) : products[k].id <= p.id
         IN  lastProduct.id

\* Product.findOne().sort({ id: -1 }), then lastProduct ? lastProduct.id + 1 : 1
NewId(products) ==
    IF products = <<>> THEN 1
    ELSE LET lastProduct == CHOOSE p \in {products[k] : k \in 1..Len(products)} :
                               \A k \in 1..Len(products) : products[k].id <= p.id
         IN  lastProduct.id + 1

\* the positions of the products with this id
Positions(products, id) == {k \in 1..Len(products) : products[k].id = id}

FindOneUnfiltered(products, id) == IF products = <<>> THEN 0 ELSE 1

\* Product.findOne({ id }): the position of the first match, 0 for null
FindOne(products, id) ==
    LET P == Positions(products, id) IN
    IF P = {} THEN 0 ELSE CHOOSE k \in P : \A j \in P : k <= j

\* Product.findOneAndDelete({ id }): the collection without the first match
FindOneAndDelete(products, id) ==
    LET k == FindOne(products, id) IN
    IF k = 0 THEN products
    ELSE SubSeq(products, 1, k - 1) \o SubSeq(products, k + 1, Len(products))

\* products.map((p) => p.image)
ImageUrls(products) == [k \in 1..Len(products) |-> products[k].image]

\* array.includes(x)
Includes(array, x) == \E k \in 1..Len(array) : array[k] = x

(* ----------------------------- media store ----------------------------- *)

\* uploader.upload_stream: the resource is stored under its public id and
\* replaces the one already stored under it
Uploaded(store, res) == {o \in store : o.public_id # res.public_id} \cup {res}

\* uploader.destroy(publicId): the result Cloudinary answers with
DestroyResult(store, publicId) ==
    IF \E o \in store : o.public_id = publicId THEN "ok" ELSE "not found"

\* uploader.destroy(publicId): the store afterwards
Destroyed(store, publicId) == {o \in store : o.public_id # publicId}

\* api.resources({ type: "upload", prefix }): the resources under the prefix
Resources(store, prefix) ==
    {o \in store : Len(o.public_id) >= Len(prefix)
                   /\ SubSeq(o.public_id, 1, Len(prefix)) = prefix}

\* the enumerations of a finite set, in every order
Orderings(S) ==
    {f \in [1..Cardinality(S) -> S] : \A i, j \in 1..Cardinality(S) : i # j => f[i] # f[j]}

RECURSIVE Filter(_, _)
\* cloudinaryUrls.filter((url) => !dbImageUrls.includes(url))
Filter(urls, dbImageUrls) ==
    IF urls = <<>> THEN <<>>
    ELSE (IF Includes(dbImageUrls, Head(urls)) THEN <<>> ELSE <<Head(urls)>>)
         \o Filter(Tail(urls), dbImageUrls)

(* ------------------------------- state --------------------------------- *)
\* catalog   the Product collection, in insertion order: [id, image]
\* remote    the resources of the media store: [public_id, secure_url]
\* req       per slot, the locals of the handler running in it
\* sweep     the locals of cleanupOrphans
\* response  the response to the last request that arrived, once it is sent:
\*           its status, what the handler caught (fault) and the locals of
\*           the handler at that point
\* highest   the highest id a saved product has been given so far
\* creates   the create requests accepted so far
\* starts    the starts of the process so far
\* raced     a create request has arrived while another one was in flight

\* a request slot with no request in it
Idle ==
    [op |-> "none", pc |-> "idle", id |-> 0, file |-> NoFile, image |-> Null,
     found |-> FALSE, publicId |-> <<>>, result |-> "none", calls |-> 0]

\* no response sent yet
NoResponse ==
    [op |-> "none", id |-> 0, image |-> Null, found |-> FALSE, result |-> "none",
     calls |-> 0, status |-> 0, fault |-> "none"]

\* cleanupOrphans() as called when the script is loaded
SweepStart ==
    [pc |-> "s_find", dbImageUrls |-> <<>>, orphanedImages |-> <<>>, i |-> 0,
     fault |-> "none"]

Init ==
    /\ catalog = <<>>
    /\ remote = {}
    /\ req = [r \in Slots |-> Idle]
    /\ sweep = SweepStart
    /\ response = NoResponse
    /\ highest = 0
    /\ creates = 0
    /\ starts = 1
    /\ raced = FALSE

\* no request is in flight in slot r
Quiescent(r) == req[r].pc = "idle"

\* a create request is in flight in a slot other than r
CreateInFlight(r) ==
    \E q \in Slots \ {r} : req[q].op \in {"upload", "addproduct"}

\* the sweep has returned or has thrown
SweepOver == sweep.pc \in {"done", "aborted"}

\* res.status(code).json(...) by the handler whose locals are rq: the
\* handler is over; fault names what it caught, if anything
Respond(r, rq, code, fault) ==
    /\ response' = [op |-> rq.op, id |-> rq.id, image |-> rq.image, found |-> rq.found,
                    result |-> rq.result, calls |-> rq.calls, status |-> code,
                    fault |-> fault]
    /\ req' = [req EXCEPT ![r] = Idle]

(* ------------------------------- /upload ------------------------------- *)

\* lines 84-92: the request arrives; the required fields are checked
UploadStart(r) ==
    /\ Quiescent(r)
    /\ \E fieldsOk \in BOOLEAN, file \in Files \cup {NoFile} :
          IF ~fieldsOk
          THEN /\ Respond(r, [Idle EXCEPT !.op = "upload"], 400, "none")
               /\ UNCHANGED <<creates, raced>>
          ELSE /\ creates < MaxCreates
               /\ req' = [req EXCEPT ![r] = [Idle EXCEPT !.op = "upload", !.pc = "u_find",
                                                         !.file = file]]
               /\ creates' = creates + 1
               /\ raced' = (raced \/ CreateInFlight(r))
               /\ response' = NoResponse
    /\ UNCHANGED <<catalog, remote, sweep, highest, starts>>

\* lines 96-101: the last product is read and the new id computed
UploadFind(r) ==
    /\ req[r].pc = "u_find"
    /\ \/ /\ req' = [req EXCEPT ![r].id = NewId(catalog),
                                ![r].pc = IF req[r].file = NoFile THEN "u_save"
                                          ELSE "u_upload"]
          /\ UNCHANGED response
       \/ Respond(r, req[r], 500, "db")
    /\ UNCHANGED <<catalog, remote, sweep, highest, creates, starts, raced>>

UploadStreamSwallowsError(r) ==
    /\ req[r].pc = "u_upload"
    /\ \/ LET result == Resource("products", req[r].file) IN
          /\ remote' = Uploaded(remote, result)
          /\ req' = [req EXCEPT ![r].image = result.secure_url, ![r].pc = "u_save"]
       \/ /\ req' = [req EXCEPT ![r].pc = "u_save"]
          /\ UNCHANGED remote
    /\ UNCHANGED <<catalog, sweep, response, highest, creates, starts, raced>>

\* lines 102-116: the upload stream ends with a result or with an error
UploadStream(r) ==
    /\ req[r].pc = "u_upload"
    /\ \/ LET result == Resource("products", req[r].file) IN
          /\ remote' = Uploaded(remote, result)
          /\ req' = [req EXCEPT ![r].image = result.secure_url, ![r].pc = "u_save"]
          /\ UNCHANGED response
       \/ /\ Respond(r, req[r], 500, "media")
          /\ UNCHANGED remote
    /\ UNCHANGED <<catalog, sweep, highest, creates, starts, raced>>

\* lines 119-145: product.save()
UploadSave(r) ==
    /\ req[r].pc = "u_save"
    /\ \/ /\ catalog' = Append(catalog, [id |-> req[r].id, image |-> req[r].image])
          /\ highest' = IF req[r].id > highest THEN req[r].id ELSE highest
          /\ Respond(r, req[r], 201, "none")
       \/ /\ Respond(r, req[r], 500, "db")
          /\ UNCHANGED <<catalog, highest>>
    /\ UNCHANGED <<remote, sweep, creates, starts, raced>>

(* ----------------------------- /addproduct ----------------------------- *)

\* lines 149-167: the request arrives; the fields are validated
AddStart(r) ==
    /\ Quiescent(r)
    /\ \E fieldsOk \in BOOLEAN, image \in ClientUrls :
          IF ~fieldsOk
          THEN /\ Respond(r, [Idle EXCEPT !.op = "addproduct"], 400, "none")
               /\ UNCHANGED <<creates, raced>>
          ELSE /\ creates < MaxCreates
               /\ req' = [req EXCEPT ![r] = [Idle EXCEPT !.op = "addproduct",
                                                         !.pc = "a_find", !.image = image]]
               /\ creates' = creates + 1
               /\ raced' = (raced \/ CreateInFlight(r))
               /\ response' = NoResponse
    /\ UNCHANGED <<catalog, remote, sweep, highest, starts>>

\* lines 169-170
AddFind(r) ==
    /\ req[r].pc = "a_find"
    /\ \/ /\ req' = [req EXCEPT ![r].id = NewId(catalog), ![r].pc = "a_save"]
          /\ UNCHANGED response
       \/ Respond(r, req[r], 500, "db")
    /\ UNCHANGED <<catalog, remote, sweep, highest, creates, starts, raced>>

\* lines 173-199
AddSave(r) ==
    /\ req[r].pc = "a_save"
    /\ \/ /\ catalog' = Append(catalog, [id |-> req[r].id, image |-> req[r].image])
          /\ highest' = IF req[r].id > highest THEN req[r].id ELSE highest
          /\ Respond(r, req[r], 201, "none")
       \/ /\ Respond(r, req[r], 500, "db")
          /\ UNCHANGED <<catalog, highest>>
    /\ UNCHANGED <<remote, sweep, creates, starts, raced>>

(* ---------------------------- /removeproduct --------------------------- *)

\* the ids a client may post; 0 is falsy, like a missing id
RequestIds == 0..MaxCreates

DestroyAcceptedAlways(result) == result = result

DestroyAcceptedOkOnly(result) == result = "ok"

\* line 237, negated: the results after which the catalog row is deleted
DestroyAccepted(result) == result = "ok" \/ result = "not found"

\* lines 204-213: the request arrives; the id is checked
RemoveStart(r) ==
    /\ Quiescent(r)
    /\ \E id \in RequestIds :
          IF id = 0
          THEN Respond(r, [Idle EXCEPT !.op = "removeproduct"], 400, "none")
          ELSE /\ req' = [req EXCEPT ![r] = [Idle EXCEPT !.op = "removeproduct",
                                                         !.pc = "r_find", !.id = id]]
               /\ response' = NoResponse
    /\ UNCHANGED <<catalog, remote, sweep, highest, creates, starts, raced>>

\* lines 216-235: the product is looked up, the public id derived from its
\* image and destroy called; null.split throws a TypeError
RemoveFind(r) ==
    /\ req[r].pc = "r_find"
    /\ \/ LET k == FindOne(catalog, req[r].id) IN
          IF k = 0 THEN Respond(r, req[r], 404, "none")
          ELSE IF catalog[k].image = Null
               THEN Respond(r, [req[r] EXCEPT !.found = TRUE], 500, "type")
               ELSE /\ req' = [req EXCEPT ![r].pc = "r_destroy",
                                          ![r].found = TRUE,
                                          ![r].image = catalog[k].image,
                                          ![r].publicId = RemovePublicId(catalog[k].image),
                                          ![r].calls = 1]
                    /\ UNCHANGED response
       \/ Respond(r, req[r], 500, "db")
    /\ UNCHANGED <<catalog, remote, sweep, highest, creates, starts, raced>>

\* lines 235-244: destroy answers with a result, or throws
RemoveDestroy(r) ==
    /\ req[r].pc = "r_destroy"
    /\ \/ \E result \in {DestroyResult(remote, req[r].publicId), "error"} :
            /\ remote' = IF result = "error" THEN remote
                         ELSE Destroyed(remote, req[r].publicId)
            /\ IF DestroyAccepted(result)
               THEN /\ req' = [req EXCEPT ![r].result = result, ![r].pc = "r_delete"]
                    /\ UNCHANGED response
               ELSE Respond(r, [req[r] EXCEPT !.result = result], 500, "media")
       \/ /\ Respond(r, [req[r] EXCEPT !.result = "throw"], 500, "media")
          /\ UNCHANGED remote
    /\ UNCHANGED <<catalog, sweep, highest, creates, starts, raced>>

\* lines 247-261: Product.findOneAndDelete({ id })
RemoveDelete(r) ==
    /\ req[r].pc = "r_delete"
    /\ \/ /\ catalog' = FindOneAndDelete(catalog, req[r].id)
          /\ Respond(r, req[r], 200, "none")
       \/ /\ Respond(r, req[r], 500, "db")
          /\ UNCHANGED catalog
    /\ UNCHANGED <<remote, sweep, highest, creates, starts, raced>>

(* ---------------------------- cleanupOrphans --------------------------- *)

\* lines 368-369: the loop reaches orphan number i: past the end the sweep
\* returns, a null match throws a TypeError, otherwise destroy is called
Iterate(sw, i) ==
    IF i > Len(sw.orphanedImages) THEN [sw EXCEPT !.pc = "done", !.i = i]
    ELSE IF Match(sw.orphanedImages[i]) = <<>>
         THEN [sw EXCEPT !.pc = "aborted", !.i = i, !.fault = "type"]
         ELSE [sw EXCEPT !.pc = "s_destroy", !.i = i]

\* line 360: Product.find({})
SweepFind ==
    /\ sweep.pc = "s_find"
    /\ \/ sweep' = [sweep EXCEPT !.dbImageUrls = ImageUrls(catalog), !.pc = "s_list"]
       \/ sweep' = [sweep EXCEPT !.pc = "aborted", !.fault = "db"]
    /\ UNCHANGED <<catalog, remote, req, response, highest, creates, starts, raced>>

\* lines 361-369: the resources are listed, the orphans filtered and the
\* loop entered; dbImageUrls is not read again and is dropped
SweepList ==
    /\ sweep.pc = "s_list"
    /\ \/ \E resources \in Orderings(Resources(remote, <<"products", "/">>)) :
            LET cloudinaryUrls == [k \in 1..Len(resources) |-> resources[k].secure_url]
                orphanedImages == Filter(cloudinaryUrls, sweep.dbImageUrls)
            IN  sweep' = Iterate([sweep EXCEPT !.orphanedImages = orphanedImages,
                                               !.dbImageUrls = <<>>], 1)
       \/ sweep' = [sweep EXCEPT !.pc = "aborted", !.fault = "media"]
    /\ UNCHANGED <<catalog, remote, req, response, highest, creates, starts, raced>>

\* lines 370-372: destroy answers (its result is not looked at) or throws,
\* and nothing catches it
SweepDestroy ==
    /\ sweep.pc = "s_destroy"
    /\ \/ /\ remote' = Destroyed(remote, SweepPublicId(sweep.orphanedImages[sweep.i]))
          /\ sweep' = Iterate(sweep, sweep.i + 1)
       \/ /\ sweep' = [sweep EXCEPT !.pc = "aborted", !.fault = "destroy"]
          /\ UNCHANGED remote
    /\ UNCHANGED <<catalog, req, response, highest, creates, starts, raced>>

(* ------------------------------- server -------------------------------- *)

\* lines 374-384: the script is loaded again (the process is restarted): the
\* requests in flight are gone, cleanupOrphans() is called, the catalog and
\* the media store are as they were left
Start ==
    /\ starts < MaxStarts
    /\ starts' = starts + 1
    /\ req' = [r \in Slots |-> Idle]
    /\ sweep' = SweepStart
    /\ response' = NoResponse
    /\ UNCHANGED <<catalog, remote, highest, creates, raced>>

\* one step of the request in slot r
Request(r) ==
    \/ UploadStart(r) \/ UploadFind(r) \/ UploadStream(r) \/ UploadSave(r)
    \/ AddStart(r) \/ AddFind(r) \/ AddSave(r)
    \/ RemoveStart(r) \/ RemoveFind(r) \/ RemoveDestroy(r) \/ RemoveDelete(r)

\* one step of the sweep
Sweep == SweepFind \/ SweepList \/ SweepDestroy

Next ==
    \/ \E r \in Slots : Request(r)
    \/ Sweep
    \/ Start

\* requests and the sweep interleave at their awaits
Spec == Init /\ [][Next]_vars

\* one request at a time, and none while the sweep runs
NextSerial ==
    \/ \E r \in Slots :
          /\ SweepOver
          /\ \A q \in Slots \ {r} : Quiescent(q)
          /\ Request(r)
    \/ /\ \A q \in Slots : Quiescent(q)
       /\ Sweep
    \/ Start

SerialSpec == Init /\ [][NextSerial]_vars

\* one request at a time, while the sweep runs beside it
NextSweep ==
    \/ \E r \in Slots :
          /\ \A q \in Slots \ {r} : Quiescent(q)
          /\ Request(r)
    \/ Sweep
    \/ Start

SweepSpec == Init /\ [][NextSweep]_vars

\* the requests of one run of the process interleave at their awaits; the
\* sweep, which writes neither the catalog nor a request, is left aside
NextRequests == \E r \in Slots : Request(r)

RequestsSpec == Init /\ [][NextRequests]_vars

\* every awaited call returns or throws, so a handler or a sweep that can
\* take a step takes one; no client is bound to send a request and nothing
\* restarts the process by itself
Progress(r) ==
    \/ UploadFind(r) \/ UploadStream(r) \/ UploadSave(r)
    \/ AddFind(r) \/ AddSave(r)
    \/ RemoveFind(r) \/ RemoveDestroy(r) \/ RemoveDelete(r)

FairSpec ==
    /\ SweepSpec
    /\ WF_vars(Sweep)
    /\ \A r \in Slots : WF_vars(Progress(r))

(* ------------------------------- claims -------------------------------- *)

\* the catalog holds a product with this id
InCatalog(id) == Positions(catalog, id) # {}

\* a resource of the media store has this URL
Stored(url) == \E o \in remote : o.secure_url = url

\* the last request was a /removeproduct and has been answered
Removed == response.op = "removeproduct" /\ response.status # 0

\* C1: when destroy answers with a result other than "ok" and "not found",
\* or throws, /removeproduct answers 500 and the product is still in the
\* catalog; a removeproduct handler changes the catalog only at its delete
\* step, with destroy having answered "ok" or "not found".
C1_DestroyBeforeDelete ==
    /\ [](Removed /\ response.result \in {"error", "throw"}
            => response.status = 500 /\ InCatalog(response.id))
    /\ [][\A r \in Slots :
            (req[r].op = "removeproduct" /\ catalog' # catalog)
                => req[r].pc = "r_delete" /\ req[r].result \in {"ok", "not found"}]_vars

C1_Witness ==
    /\ Removed /\ response.result = "error"
    /\ response.status = 500 /\ InCatalog(response.id)

\* C2: a /removeproduct for a product whose image is null succeeds: unless a
\* catalog call failed, the answer is 200, the product is gone and destroy
\* was not called.
C2_NullImageDeleted ==
    (Removed /\ response.found /\ response.image = Null /\ response.fault # "db")
        => /\ response.status = 200
           /\ ~InCatalog(response.id)
           /\ response.calls = 0

\* C3: the identifier the sweep hands to destroy is the public id of the
\* orphan it is at, and when the sweep has returned, with no request since
\* the start, every resource under products/ is the image of a product.
C3_SweepRemovesOrphans ==
    /\ sweep.pc = "s_destroy"
          => \E o \in remote : /\ o.secure_url = sweep.orphanedImages[sweep.i]
                               /\ o.public_id = SweepPublicId(sweep.orphanedImages[sweep.i])
    /\ (sweep.pc = "done" /\ response = NoResponse /\ \A r \in Slots : Quiescent(r))
          => \A o \in Resources(remote, <<"products", "/">>) :
                Includes(ImageUrls(catalog), o.secure_url)

\* C4: under serialized requests every saved product gets an id above every
\* id given before it (1 or more in an empty catalog's case), so no id is
\* given twice.
C4_IdsStrictlyIncreasing ==
    [][Len(catalog') > Len(catalog) => catalog'[Len(catalog')].id > highest]_vars

C6_AbsentIdNotFound ==
    (Removed /\ ~response.found /\ ~InCatalog(response.id) /\ response.fault # "db")
        => response.status = 404 /\ response.calls = 0

\* C6, amended: a /removeproduct for a non-zero id no product has ends at the
\* lookup: it is answered 404, or 500 if the lookup fails, destroy is not
\* called and the catalog and the media store are left as they were; the id
\* 0 is answered 400 before any lookup, with the same frame.
C6_AbsentIdFrame ==
    /\ [](Removed /\ response.id = 0 => response.status = 400 /\ response.calls = 0)
    /\ [][\A r \in Slots :
            (/\ req[r].pc = "r_find" /\ ~InCatalog(req[r].id)
             /\ req'[r] # req[r] /\ starts' = starts)
                => /\ req'[r].pc = "idle"
                   /\ response'.op = "removeproduct" /\ response'.id = req[r].id
                   /\ response'.status = IF response'.fault = "db" THEN 500 ELSE 404
                   /\ response'.calls = 0
                   /\ catalog' = catalog /\ remote' = remote]_vars

C6_Witness ==
    /\ Removed /\ response.status = 404 /\ response.calls = 0
    /\ response.id # 0 /\ ~InCatalog(response.id)
    /\ catalog # <<>> /\ remote # {}

\* C7: no two products of the catalog reference the same media store object.
C7_NoSharedObject ==
    \A i, j \in 1..Len(catalog) :
        (i # j /\ catalog[i].image # Null) => catalog[i].image # catalog[j].image

\* C8: with the sweep running beside a create request, the image of a product
\* /upload has answered 201 for is in the media store, whatever the sweep has
\* done and does after it.
C8_SweepSparesNewImage ==
    (response.op = "upload" /\ response.status = 201 /\ response.image # Null)
        => Stored(response.image)

\* the sweep listed the image before the product was saved, took it for an
\* orphan and has called destroy for it
C8_Witness ==
    /\ response.op = "upload" /\ response.status = 201 /\ response.image # Null
    /\ sweep.pc = "done"
    /\ Includes(sweep.orphanedImages, response.image)
    /\ Stored(response.image)

\* the resources the requests can create
AllResources == {Resource("products", f) : f \in Files}

\* no product has this resource as its image
Orphan(o) == o \in remote /\ ~Includes(ImageUrls(catalog), o.secure_url)

\* /upload has just answered 500 because the insert failed, after storing o
InsertFailed(o) ==
    /\ response.op = "upload" /\ response.status = 500 /\ response.fault = "db"
    /\ response.image = o.secure_url

\* C9: the resource a create request has stored before its insert failed, as
\* long as no product references it, is eventually destroyed (be it by a
\* sweep that no failing call cuts short).
C9_OrphansEventuallyRemoved ==
    \A o \in AllResources :
        (InsertFailed(o) /\ Orphan(o)) ~> (~Orphan(o) \/ sweep.pc = "aborted")

\* C10: a sweep ended by a failing destroy (or a failing derivation) has
\* reached the last orphan: destroy was attempted for every orphan after the
\* failing one.
C10_SweepGoesOn ==
    (sweep.pc = "aborted" /\ sweep.fault \in {"destroy", "type"})
        => sweep.i >= Len(sweep.orphanedImages)

\* C11: in /upload with a file, the step that ends the upload inserts
\* nothing: on success it leaves the returned URL as the image to insert, on
\* failure the handler answers 500 with the catalog as it was; the insert is
\* made at the step after it, and the row inserted carries the URL the upload
\* returned.
C11_UploadBeforeInsert ==
    /\ [][\A r \in Slots :
            (req[r].pc = "u_upload" /\ req'[r] # req[r] /\ starts' = starts)
                => /\ catalog' = catalog
                   /\ \/ /\ req'[r].pc = "u_save"
                         /\ req'[r].image = Resource("products", req[r].file).secure_url
                         /\ \E o \in remote' : o.secure_url = req'[r].image
                      \/ /\ req'[r].pc = "idle"
                         /\ response'.op = "upload" /\ response'.status = 500
                         /\ remote' = remote]_vars
    /\ [][\A r \in Slots :
            (req[r].op = "upload" /\ catalog' # catalog)
                => /\ req[r].pc = "u_save"
                   /\ catalog' = Append(catalog, [id |-> req[r].id, image |-> req[r].image])
                   /\ req[r].file # NoFile
                        => req[r].image = Resource("products", req[r].file).secure_url]_vars

C11_Witness ==
    /\ response.op = "upload" /\ response.status = 201 /\ response.image # Null
    /\ catalog # <<>> /\ catalog[Len(catalog)].image = response.image
    /\ Stored(response.image)

\* two products of the catalog have the same id
DuplicateIds ==
    \E i, j \in 1..Len(catalog) : i # j /\ catalog[i].id = catalog[j].id

\* C12: two create requests interleaved at their awaits can both read the
\* same last product and save two products with the same id; as long as no
\* create request has arrived while another was in flight, the ids of the
\* catalog are distinct.
C12_DuplicateIdsOnlyByRace == DuplicateIds => raced

C12_Witness == DuplicateIds /\ raced

====
